---- MODULE Spec2Model ----
(***************************************************************************)
(* State-machine model of src/namelist_lattice.py (class namelist_lattice):*)
(* the dimension registry (expand), the lattice builder (_build_lattice),  *)
(* the lattice filter (filter), the lattice property, and the clone        *)
(* orchestration (create_clones).                                          *)
(*                                                                         *)
(* Python strings are modelled as sequences of one-character strings, so   *)
(* that split, join, replace and formatting are computed, not assumed.     *)
(* A value is a record [kind, n, s]: kind is the Python/numpy class of the *)
(* object ("int", "str" for caller-supplied objects; "int64", "float64",   *)
(* "str_" for numpy scalars), n its number, s its text.                    *)
(***************************************************************************)
EXTENDS Integers, Sequences, FiniteSets, TLC

VARIABLES
    nofill,             \* self.nofill
    param_names,        \* self.param_names
    param_vectors,      \* self.param_vectors
    xml_mask,           \* self.xml_mask
    paramgroup_mask,    \* self.paramgroup_mask
    paramgroup_labels,  \* self.paramgroup_labels
    _lattice,           \* self._lattice
    clone_dirs,         \* self.clone_dirs
    stdout,             \* self.stdout
    fs,                 \* the file system: directories and user_nl files
    cc,                 \* the activation of create_clones: its arguments, locals and position
    log,                \* the effects of the current create_clones run, in order
    user_nl,            \* a user_nl text under repeated reconciliation
    last                \* the last call made on the object and its outcome

registry == <<param_names, param_vectors, xml_mask, paramgroup_mask, paramgroup_labels>>
cloning == <<clone_dirs, stdout, fs, cc, log>>
vars == <<nofill, param_names, param_vectors, xml_mask, paramgroup_mask,
          paramgroup_labels, _lattice, clone_dirs, stdout, fs, cc, log, user_nl, last>>

(***************************************************************************)
(* Bounds of the model.                                                    *)
(***************************************************************************)
MaxDims == 3        \* expand is not called once this many names are registered
MaxMaskLen == 4     \* filter masks have at most this many entries
MaxRuns == 2        \* create_clones is called at most this many times
MaxFailures == 1    \* at most this many external commands are made to return non-zero
MaxApplications == 2 \* a text is reconciled at most this many times

(***************************************************************************)
(* Python string primitives.                                               *)
(***************************************************************************)
Whitespace == {" ", "\t", "\n"}

Contains(seq, x) == \E i \in DOMAIN seq : seq[i] = x

\* ''.join(s.split())
RemoveWhitespace(s) == SelectSeq(s, LAMBDA c : c \notin Whitespace)

RECURSIVE Split(_, _)
\* s.split(sep) for a one-character separator
Split(s, sep) ==
    IF ~Contains(s, sep) THEN <<s>>
    ELSE LET i == CHOOSE k \in DOMAIN s : s[k] = sep /\ \A m \in 1..(k-1) : s[m] # sep
         IN  <<SubSeq(s, 1, i-1)>> \o Split(SubSeq(s, i+1, Len(s)), sep)

RECURSIVE Replace(_, _, _)
\* s.replace(c, r) for a one-character c
Replace(s, c, r) ==
    IF s = <<>> THEN <<>>
    ELSE (IF Head(s) = c THEN r ELSE <<Head(s)>>) \o Replace(Tail(s), c, r)

RECURSIVE Strip(_)
\* s.strip()
Strip(s) ==
    IF s = <<>> THEN s
    ELSE IF Head(s) \in Whitespace THEN Strip(Tail(s))
    ELSE IF s[Len(s)] \in Whitespace THEN Strip(SubSeq(s, 1, Len(s)-1))
    ELSE s

RECURSIVE Flatten(_)
\* concatenation of a sequence of sequences
Flatten(ss) == IF ss = <<>> THEN <<>> ELSE Head(ss) \o Flatten(Tail(ss))

RECURSIVE Product(_)
Product(ns) == IF ns = <<>> THEN 1 ELSE Head(ns) * Product(Tail(ns))

HasDuplicates(seq) == \E i, j \in DOMAIN seq : i < j /\ seq[i] = seq[j]

Digit(d) == <<"0", "1", "2", "3", "4", "5", "6", "7", "8", "9">>[d + 1]

RECURSIVE StrOfNat(_)
\* str(n) for a non-negative integer
StrOfNat(n) == IF n < 10 THEN <<Digit(n)>> ELSE StrOfNat(n \div 10) \o <<Digit(n % 10)>>

(***************************************************************************)
(* Values.                                                                 *)
(***************************************************************************)
PyInt(n) == [kind |-> "int", n |-> n, s |-> <<>>]
PyStr(s) == [kind |-> "str", n |-> 0, s |-> s]
NpInt(n) == [kind |-> "int64", n |-> n, s |-> <<>>]
NpFloat(n) == [kind |-> "float64", n |-> n, s |-> <<>>]
NpStr(s) == [kind |-> "str_", n |-> 0, s |-> s]

\* '{}'.format(v): the text of a value (floats of the model are whole numbers)
Text(v) ==
    CASE v.kind \in {"str", "str_"} -> v.s
      [] v.kind \in {"int", "int64"} -> StrOfNat(v.n)
      [] OTHER -> StrOfNat(v.n) \o <<".", "0">>

\* the numpy scalar an element of np.array(values) holds
NpScalar(v) ==
    CASE v.kind = "int" -> NpInt(v.n)
      [] v.kind = "str" -> NpStr(v.s)
      [] OTHER -> v

\* the common dtype numpy gives an array built from vectors of these kinds
CommonKind(kinds) ==
    IF "str_" \in kinds THEN "str_"
    ELSE IF "float64" \in kinds THEN "float64"
    ELSE "int64"

\* conversion of one element to the common dtype
AsKind(v, k) ==
    IF v.kind = k THEN v
    ELSE IF k = "str_" THEN NpStr(Text(v))
    ELSE IF k = "float64" THEN NpFloat(v.n)
    ELSE NpInt(v.n)

(***************************************************************************)
(* _build_lattice (lines 241-258).  A lattice is [built, names, pts]:      *)
(* built = FALSE is self._lattice = None, names are the record field names *)
(* and pts[p][d] is the value of field d at point p.                       *)
(***************************************************************************)
NoLattice == [built |-> FALSE, names |-> <<>>, pts |-> <<>>]

Sizes(vectors) == [d \in DOMAIN vectors |-> Len(vectors[d])]

\* np.meshgrid(*xi, indexing='ij'): the axes are the dimensions in order
MeshgridAxes_ij(N) == [k \in 1..N |-> k]

\* np.meshgrid(*xi) with the default indexing='xy': the axes of every grid
\* are (dimension 2, dimension 1, dimension 3, ..., dimension N)
MeshgridAxes(N) ==
    [k \in 1..N |-> IF N >= 2 /\ k = 1 THEN 2 ELSE IF N >= 2 /\ k = 2 THEN 1 ELSE k]

\* np.ravel of the grid of dimension d, in C order (last axis fastest):
\* the index into vectors[d] that flat position p (from 0) holds
MeshgridIndex(vectors, d, p) ==
    LET N == Len(vectors)
        axes == MeshgridAxes(N)
        pos == CHOOSE k \in 1..N : axes[k] = d
        stride == Product([k \in 1..(N - pos) |-> Len(vectors[axes[pos + k]])])
    IN  ((p \div stride) % Len(vectors[d])) + 1

\* np.vstack: every row is converted to the common dtype of all rows
Vstack(rows) ==
    LET kinds == UNION {{rows[d][i].kind : i \in 1..Len(rows[d])} : d \in DOMAIN rows}
    IN  [d \in DOMAIN rows |-> [i \in 1..Len(rows[d]) |-> AsKind(rows[d][i], CommonKind(kinds))]]

\* np.core.records.fromarrays(points, names=...): the field names are the
\* stripped names; duplicate field names raise ValueError
FieldNames(names) == [d \in DOMAIN names |-> Strip(names[d])]

FromArrays(points, names, T) ==
    IF HasDuplicates(FieldNames(names))
    THEN [err |-> "ValueError: duplicate field names", lat |-> NoLattice]
    ELSE [err |-> "",
          lat |-> [built |-> TRUE, names |-> FieldNames(names),
                   pts |-> [p \in 1..T |-> [d \in DOMAIN points |-> points[d][p]]]]]

\* a builder that keeps the points the lattice holds and only adds the
\* dimensions the lattice does not have yet
BuildLattice_Patch(nf, vectors, names) ==
    IF ~_lattice.built
    THEN (IF ~nf
          THEN LET T == Product(Sizes(vectors))
                   grid == [d \in DOMAIN vectors |->
                              [p \in 1..T |-> vectors[d][MeshgridIndex(vectors, d, p - 1)]]]
               IN  FromArrays(Vstack(grid), names, T)
          ELSE FromArrays(Vstack(vectors), names, Len(vectors[1])))
    ELSE LET old == _lattice.pts
             L == Len(old)
             k == Len(_lattice.names)
             N == Len(vectors)
             added == [j \in 1..(N - k) |-> vectors[k + j]]
             T == IF nf THEN L ELSE L * Product(Sizes(added))
             grid == [d \in 1..N |->
                        [p \in 1..T |->
                           IF d <= k THEN old[((p - 1) % L) + 1][d]
                           ELSE IF nf THEN vectors[d][((p - 1) % Len(vectors[d])) + 1]
                           ELSE added[d - k][MeshgridIndex(added, d - k, (p - 1) \div L)]]]
         IN  FromArrays(Vstack(grid), names, T)

\* a builder that zips the vectors whatever the mode
BuildLattice_ZipAlways(nf, vectors, names) ==
    IF \E d \in DOMAIN vectors : Len(vectors[d]) # Len(vectors[1])
    THEN [err |-> "ValueError: vstack dimensions must match", lat |-> NoLattice]
    ELSE FromArrays(Vstack(vectors), names, Len(vectors[1]))

BuildLattice(nf, vectors, names) ==
    IF ~nf
    THEN LET T == Product(Sizes(vectors))
             grid == [d \in DOMAIN vectors |->
                        [p \in 1..T |-> vectors[d][MeshgridIndex(vectors, d, p - 1)]]]
         IN  FromArrays(Vstack(grid), names, T)
    ELSE IF \E d \in DOMAIN vectors : Len(vectors[d]) # Len(vectors[1])
         THEN [err |-> "ValueError: vstack dimensions must match", lat |-> NoLattice]
         ELSE FromArrays(Vstack(vectors), names, Len(vectors[1]))

(***************************************************************************)
(* expand (lines 66-219).  A call is a record of the arguments: names is   *)
(* np.atleast_1d(names); values holds one row per name (hasValues = FALSE  *)
(* is values=None); limits holds one <<lower, upper>> pair per name and    *)
(* nsamples one count per name (hasLimits, hasNsamples = FALSE is None);   *)
(* group_labels = <<>> is group_labels=None.                               *)
(***************************************************************************)
RECURSIVE Where(_, _, _)
\* np.where(mask) (flag = 1) and np.where(1 - mask) (flag = 0), from index i on
Where(mask, flag, i) ==
    IF i > Len(mask) THEN <<>>
    ELSE (IF mask[i] = flag THEN <<i>> ELSE <<>>) \o Where(mask, flag, i + 1)

\* np.ravel([s.split(',') for s in np.array(names)[np.where(mask)]]) (lines 137-138,
\* 348-349).  When the groups have different member counts the nested list is
\* ragged: numpy >= 1.24 raises ValueError, older builds make an array of list
\* objects, which no string equals.
AllGroupParams(names, mask, numpy_ragged) ==
    LET idx == Where(mask, 1, 1)
        splits == [k \in 1..Len(idx) |-> Split(names[idx[k]], ",")]
    IN  IF \A k \in 1..Len(idx) : Len(splits[k]) = Len(splits[1])
        THEN [err |-> "", members |-> Flatten(splits)]
        ELSE IF numpy_ragged = "ValueError"
        THEN [err |-> "ValueError: inhomogeneous shape", members |-> <<>>]
        ELSE [err |-> "", members |-> <<>>]

\* the checks of the first loop for names[i] (lines 117-144): the error raised, or ""
ExpandCheckName(call, i, numpy_ragged) ==
    LET name == call.names[i]
        members == Split(RemoveWhitespace(name), ",")
        agp == AllGroupParams(param_names, paramgroup_mask, numpy_ragged)
    IN  IF Contains(param_names, name)
        THEN "AssertionError: parameter with name already exists in lattice"
        ELSE IF ~call.group THEN ""
        ELSE IF ~call.hasValues THEN "TypeError: NoneType is not subscriptable"
        ELSE IF Len(call.values[1]) < i THEN "IndexError: list index out of range"
        ELSE IF call.group_labels = <<>>
        THEN "AssertionError: group_label must be passed if group is True"
        ELSE IF Contains(paramgroup_labels, call.group_labels[i])
        THEN "AssertionError: group_label already exists in the lattice"
        ELSE IF agp.err # "" THEN agp.err
        ELSE IF \E k \in DOMAIN members : Contains(agp.members, members[k])
        THEN "AssertionError: parameter aleady exists in the lattice"
        ELSE IF HasDuplicates(members)
        THEN "AssertionError: parameter group contains duplicates"
        ELSE ""

RECURSIVE FirstError(_, _, _, _)
FirstError(call, i, n, numpy_ragged) ==
    IF i > n THEN ""
    ELSE IF ExpandCheckName(call, i, numpy_ragged) # ""
    THEN ExpandCheckName(call, i, numpy_ragged)
    ELSE FirstError(call, i + 1, n, numpy_ragged)

\* log10 of a power of ten
Log10(x) == CHOOSE k \in 0..9 : Product([j \in 1..k |-> 10]) = x

\* np.linspace(lo, hi, n); the calls of the model divide evenly
Linspace(lo, hi, n) ==
    [i \in 1..n |-> NpFloat(IF n = 1 THEN lo ELSE lo + ((i - 1) * (hi - lo)) \div (n - 1))]

\* the registry and lattice that a call leaves, and the error it raises ("" if none)
ExpandResult(call, numpy_ragged) ==
    LET unchanged == [names |-> param_names, vectors |-> param_vectors, xml |-> xml_mask,
                      grp |-> paramgroup_mask, labels |-> paramgroup_labels, lat |-> _lattice]
        fail(e) == [err |-> e] @@ unchanged
        N == Len(call.names)
        loopErr == FirstError(call, 1, N, numpy_ragged)
        \* lines 129-131: whitespace is removed from names[i] and values[i]
        names == IF call.group THEN [i \in 1..N |-> RemoveWhitespace(call.names[i])]
                 ELSE call.names
        values == IF call.group
                  THEN [call.values EXCEPT ![1] =
                          [j \in DOMAIN call.values[1] |->
                              IF j <= N THEN PyStr(RemoveWhitespace(call.values[1][j].s))
                              ELSE call.values[1][j]]]
                  ELSE call.values
        \* line 176: np.atleast_2d(values)
        rows == Vstack([d \in DOMAIN values |->
                          [j \in DOMAIN values[d] |-> NpScalar(values[d][j])]])
        generated == [i \in 1..N |->
                        IF call.logspace
                        THEN Linspace(Log10(call.limits[i][1]), Log10(call.limits[i][2]),
                                      call.nsamples[i])
                        ELSE Linspace(call.limits[i][1], call.limits[i][2], call.nsamples[i])]
        newVectors == IF call.hasValues THEN rows ELSE generated
        flag(b) == [i \in 1..N |-> IF b THEN 1 ELSE 0]
        ext == [names |-> param_names \o names,
                vectors |-> param_vectors \o newVectors,
                xml |-> xml_mask \o flag(call.xmlchange),
                grp |-> paramgroup_mask \o flag(call.group),
                labels |-> IF call.group THEN paramgroup_labels \o call.group_labels
                           ELSE paramgroup_labels]
        call_err == "AssertionError: either values or limits and nsamples must be passed, not both"
    IN  IF loopErr # "" THEN fail(loopErr)
        ELSE IF ~call.hasValues /\ ~(call.hasLimits /\ call.hasNsamples) THEN fail(call_err)
        ELSE IF ~call.hasValues /\ call.group
        THEN fail("AssertionError: auto-generation of values can not be used if group=True")
        ELSE IF ~call.hasValues /\ ~(N = Len(call.limits) /\ N = Len(call.nsamples))
        THEN fail("AssertionError: names, limits, and nsamples must all be of equal length")
        ELSE IF call.hasValues /\ (call.hasLimits \/ call.hasNsamples) THEN fail(call_err)
        ELSE IF call.hasValues /\ N # Len(rows)
        THEN fail("AssertionError: names and values must be of equal length")
        ELSE IF call.hasValues /\ call.group
                /\ \E i \in 1..N : \E j \in DOMAIN rows[i] :
                      Len(Split(names[i], ",")) # Len(Split(rows[i][j].s, ","))
        THEN fail("AssertionError: mismatch in number of group parameters and values")
        ELSE \* lines 202-219: the registry is extended, then the lattice is built
             LET built == CHOOSE b \in {BuildLattice(nofill, ext.vectors, ext.names)} : TRUE
             IN  IF built.err # ""
                 THEN [err |-> built.err, lat |-> _lattice] @@ ext
                 ELSE [err |-> "", lat |-> built.lat] @@ ext

\* what the object held before a call
Snapshot ==
    [names |-> param_names, vectors |-> param_vectors, xml |-> xml_mask,
     grp |-> paramgroup_mask, labels |-> paramgroup_labels, lat |-> _lattice]

Expand(call, numpy_ragged) ==
    /\ cc.pc = "idle"
    /\ Len(param_names) + Len(call.names) <= MaxDims
    /\ \E r \in {ExpandResult(call, numpy_ragged)} :
           /\ param_names' = r.names
           /\ param_vectors' = r.vectors
           /\ xml_mask' = r.xml
           /\ paramgroup_mask' = r.grp
           /\ paramgroup_labels' = r.labels
           /\ _lattice' = r.lat
           /\ last' = [op |-> "expand", err |-> r.err, arg |-> call, pre |-> Snapshot]
    /\ UNCHANGED <<nofill, cloning, user_nl>>

(***************************************************************************)
(* filter (lines 225-235): self._lattice[np.array(mask, dtype=bool)]       *)
(***************************************************************************)
RECURSIVE BoolIndex_Inverted(_, _)
\* a[~mask]
BoolIndex_Inverted(a, mask) ==
    IF a = <<>> THEN <<>>
    ELSE (IF Head(mask) THEN <<>> ELSE <<Head(a)>>) \o BoolIndex_Inverted(Tail(a), Tail(mask))

RECURSIVE BoolIndex(_, _)
\* a[mask] for a boolean mask as long as a
BoolIndex(a, mask) ==
    IF a = <<>> THEN <<>>
    ELSE (IF Head(mask) THEN <<Head(a)>> ELSE <<>>) \o BoolIndex(Tail(a), Tail(mask))

\* lines 234-235 with an index that is cut to the shorter of mask and lattice
FilterResult_Truncating(mask) ==
    LET n == IF Len(mask) < Len(_lattice.pts) THEN Len(mask) ELSE Len(_lattice.pts)
    IN  IF ~_lattice.built
        THEN [err |-> "TypeError: NoneType is not subscriptable", lat |-> _lattice]
        ELSE [err |-> "",
              lat |-> [_lattice EXCEPT
                          !.pts = BoolIndex(SubSeq(_lattice.pts, 1, n), SubSeq(mask, 1, n))]]

\* lines 234-235: self._lattice = self._lattice[np.array(mask, dtype=bool)]
FilterResult(mask) ==
    IF ~_lattice.built
    THEN [err |-> "TypeError: NoneType is not subscriptable", lat |-> _lattice]
    ELSE IF Len(mask) # Len(_lattice.pts)
    THEN [err |-> "IndexError: boolean index did not match indexed array",
          lat |-> _lattice]
    ELSE [err |-> "", lat |-> [_lattice EXCEPT !.pts = BoolIndex(_lattice.pts, mask)]]

Filter(mask) ==
    /\ cc.pc = "idle"
    /\ _lattice' = FilterResult(mask).lat
    /\ last' = [op |-> "filter", err |-> FilterResult(mask).err, arg |-> mask,
                pre |-> Snapshot]
    /\ UNCHANGED <<nofill, registry, cloning, user_nl>>

(***************************************************************************)
(* the lattice property (lines 55-60)                                      *)
(***************************************************************************)
\* a property that is satisfied with one dimension
LatticeProperty_OneDimension ==
    IF Len(param_names) < 1
    THEN [err |-> "RuntimeError: must add at least 2 dimensions to build lattice",
          ret |-> NoLattice]
    ELSE [err |-> "", ret |-> _lattice]

LatticeProperty ==
    IF Len(param_names) < 2
    THEN [err |-> "RuntimeError: must add at least 2 dimensions to build lattice",
          ret |-> NoLattice]
    ELSE [err |-> "", ret |-> _lattice]

GetLattice ==
    /\ cc.pc = "idle"
    /\ last' = [op |-> "lattice", err |-> LatticeProperty.err,
                arg |-> LatticeProperty.ret, pre |-> Snapshot]
    /\ UNCHANGED <<nofill, registry, _lattice, cloning, user_nl>>

(***************************************************************************)
(* create_clones (lines 263-515): naming of a point.                       *)
(***************************************************************************)
None == <<"None">>       \* the Python object None, which no string equals

RECURSIVE Join(_, _)
\* sep.join(parts)
Join(parts, sep) ==
    IF parts = <<>> THEN <<>>
    ELSE IF Len(parts) = 1 THEN parts[1]
    ELSE parts[1] \o sep \o Join(Tail(parts), sep)

Pow10(k) == Product([j \in 1..k |-> 10])

\* '%e' % n for a positive integer: one digit, six decimals, a signed
\* two-digit exponent (150000 gives 1.500000e+05)
FormatE(n) ==
    LET L == Len(StrOfNat(n))
        scaled == IF L <= 7 THEN n * Pow10(7 - L)
                  ELSE (n + 5 * Pow10(L - 8)) \div Pow10(L - 7)
        carry == scaled >= Pow10(7)
        mant == StrOfNat(IF carry THEN scaled \div 10 ELSE scaled)
        ex == IF carry THEN L ELSE L - 1
    IN  <<mant[1], ".">> \o SubSeq(mant, 2, 7) \o <<"e", "+">>
        \o (IF ex < 10 THEN <<"0">> ELSE <<>>) \o StrOfNat(ex)

\* lines 389-396: isinstance(v, str) holds of str and numpy.str_;
\* isinstance(v, int) holds of int only, not of numpy.int64 or numpy.float64
PrintValue(v) ==
    IF v.kind \in {"str", "str_"} THEN PyStr(Replace(v.s, ",", <<"_">>))
    ELSE IF v.kind = "int" /\ v.n >= 100000
    THEN PyStr(Replace(FormatE(v.n), "+", <<>>))
    ELSE v

\* lines 343-344: print_params = np.array(params);
\* print_params[np.where(self.paramgroup_mask)] = self.paramgroup_labels.
\* A label is cut to the width of the longest field name (the array's dtype).
PrintParams(params, mask, labels) ==
    LET idx == Where(mask, 1, 1)
        width == CHOOSE w \in {Len(params[d]) : d \in DOMAIN params} :
                     \A d \in DOMAIN params : Len(params[d]) <= w
    IN  IF \E k \in DOMAIN idx : idx[k] > Len(params)
        THEN [err |-> "IndexError: index out of bounds", v |-> <<>>]
        ELSE [err |-> "",
              v |-> [d \in DOMAIN params |->
                       IF \E k \in DOMAIN idx : idx[k] = d
                       THEN LET k == CHOOSE k \in DOMAIN idx : idx[k] = d
                            IN  SubSeq(labels[k], 1,
                                       IF Len(labels[k]) < width THEN Len(labels[k])
                                       ELSE width)
                       ELSE params[d]]]

\* lines 347-349: the names of the scalar fields, then the member names of
\* the registered groups
AllParams(params, names, mask, numpy_ragged) ==
    LET idx == Where(mask, 0, 1)
        agp == AllGroupParams(names, mask, numpy_ragged)
    IN  IF \E k \in DOMAIN idx : idx[k] > Len(params)
        THEN [err |-> "IndexError: index out of bounds", v |-> <<>>]
        ELSE IF agp.err # "" THEN [err |-> agp.err, v |-> <<>>]
        ELSE [err |-> "", v |-> [k \in DOMAIN idx |-> params[idx[k]]] \o agp.members]

\* lines 399-401: the derived suffix of a point
DerivedSfx(print_params, values) ==
    Join([j \in DOMAIN values |->
            print_params[j] \o <<"_">> \o Text(PrintValue(values[j]))], <<"_", "_">>)

\* lines 399-410: the suffix of point i of a lattice of T points
Sfx(clone_sfx, print_params, values, i, T) ==
    IF clone_sfx = None THEN [err |-> "", v |-> DerivedSfx(print_params, values)]
    ELSE IF Len(clone_sfx) # 1 /\ Len(clone_sfx) # T
    THEN [err |-> "RuntimeError: clone_sfx must be a single string or match the lattice",
          v |-> <<>>]
    ELSE IF Len(clone_sfx) > 1 THEN [err |-> "", v |-> clone_sfx[i]]
    ELSE [err |-> "", v |-> clone_sfx[1]]

\* lines 412-413: '{}/{}__{}'.format(top_dir, clone_prefix, sfx)
CasePath(top_dir, clone_prefix, sfx) ==
    (IF top_dir = None THEN <<"N", "o", "n", "e">> ELSE top_dir)
    \o <<"/">> \o clone_prefix \o <<"_", "_">> \o sfx

(***************************************************************************)
(* create_clones: reconciliation of user_nl_{component} (lines 459-515).   *)
(***************************************************************************)
RECURSIVE ReadLines(_)
\* f.readlines(): the lines of a text, each with its newline
ReadLines(text) ==
    IF text = <<>> THEN <<>>
    ELSE IF ~Contains(text, "\n") THEN <<text>>
    ELSE LET i == CHOOSE k \in DOMAIN text :
                     text[k] = "\n" /\ \A m \in 1..(k-1) : text[m] # "\n"
         IN  <<SubSeq(text, 1, i)>> \o ReadLines(SubSeq(text, i + 1, Len(text)))

\* line 466: ''.join(e.split()).split('=')[0]
EntryParam(e) == Split(RemoveWhitespace(e), "=")[1]

\* a purge that writes every entry back
PurgeEntries_KeepAll(text, all_params) == text

\* lines 463-469: the entries whose parameter is not in all_params are written back
PurgeEntries(text, all_params) ==
    Flatten(SelectSeq(ReadLines(text), LAMBDA e : ~Contains(all_params, EntryParam(e))))

EndsWith(s, c) == s # <<>> /\ s[Len(s)] = c

Marker ==
    <<"!", " ", "F", "o", "l", "l", "o", "w", "i", "n", "g", " ", "e", "n", "t", "r",
      "i", "e", "s", " ", "w", "r", "i", "t", "t", "e", "n", " ", "b", "y", " ", "C",
      "E", "S", "M", "_", "n", "a", "m", "e", "l", "i", "s", "t", "_", "a", "u", "t",
      "o", "m", "a", "t", "o", "r", "\n">>

\* lines 470-476: nl = f.read() is read at the end of the truncated file and
\* is empty; a newline is written unless nl ends with one, then the marker
MarkerBlock ==
    LET nl == <<>>
    IN  (IF ~EndsWith(nl, "\n") THEN <<"\n">> ELSE <<>>) \o Marker

\* lines 481-515: what field j of a point writes to the file
TextEntries(params, values, j) ==
    IF paramgroup_mask[j] = 1
    THEN IF xml_mask[j] = 1 THEN <<>>
         ELSE LET group_params == Split(params[j], ",")
                  group_values == Split(values[j].s, ",")
              IN  Flatten([k \in DOMAIN group_params |->
                     group_params[k] \o <<" ", "=", " ">> \o group_values[k] \o <<"\n">>])
    ELSE IF xml_mask[j] = 1 THEN <<>>
         ELSE params[j] \o <<" ", "=", " ">> \o Text(values[j]) \o <<"\n">>

\* lines 461-515: the file that reconciling a point leaves
ReconcileText(text, all_params, params, values) ==
    PurgeEntries(text, all_params) \o MarkerBlock
    \o Flatten([j \in DOMAIN params |-> TextEntries(params, values, j)])

(***************************************************************************)
(* create_clones: the file system and the external commands.  fs.dirs is   *)
(* the set of existing directories, fs.nl[d] the text of the file          *)
(* user_nl_{component} of case directory d.  The log holds the effects of  *)
(* the current run in the order in which they happen.                      *)
(***************************************************************************)
IsDir(f, path) == path \in f.dirs

Under(d, path) ==
    \/ d = path
    \/ Len(d) > Len(path) /\ SubSeq(d, 1, Len(path) + 1) = path \o <<"/">>

\* shutil.rmtree(path)
Rmtree(f, path) ==
    [dirs |-> {d \in f.dirs : ~Under(d, path)},
     nl |-> [d \in {x \in DOMAIN f.nl : ~Under(x, path)} |-> f.nl[d]]]

\* Path(path).mkdir(parents=True)
Mkdir(f, path) == [f EXCEPT !.dirs = @ \cup {path}]

\* create_clone succeeds only if the template exists and the new case does not
CloneOk(f, new_case, root_case) ==
    root_case \in DOMAIN f.nl /\ IsDir(f, root_case) /\ ~IsDir(f, new_case)

\* the case that a successful create_clone makes: a copy of the template
Cloned(f, new_case, root_case) ==
    [dirs |-> f.dirs \cup {new_case},
     nl |-> [d \in DOMAIN f.nl \cup {new_case} |->
               IF d = new_case THEN f.nl[root_case] ELSE f.nl[d]]]

Event(ev, i, path, key, val, rc) ==
    [ev |-> ev, i |-> i, path |-> path, key |-> key, val |-> val, rc |-> rc]

\* lines 478-511: the commands that field j of a point runs.  For a group the
\* freshly built xmlcmd is run only if self.stdout is set; otherwise line 495
\* runs cmd, the create_clone command of the point.
ParamCmds(params, values, j, new_case, cmd) ==
    IF xml_mask[j] # 1 THEN <<>>
    ELSE IF paramgroup_mask[j] = 1
    THEN LET group_params == Split(params[j], ",")
             group_values == Split(values[j].s, ",")
         IN  [k \in DOMAIN group_params |->
                IF stdout # None
                THEN Event("xmlchange", 0, new_case, group_params[k], group_values[k], 0)
                ELSE cmd]
    ELSE <<Event("xmlchange", 0, new_case, params[j], Text(values[j]), 0)>>

\* a command that leaves RESUBMIT as the template has it
ResubmitCmd_Inherited(i, new_case, resubmits) ==
    Event("xmlquery", i, new_case, <<"RESUBMIT">>, <<>>, 0)

\* line 456: '{}/xmlchange RESUBMIT={}'.format(new_case, resubmits)
ResubmitCmd(i, new_case, resubmits) ==
    Event("xmlchange", i, new_case, <<"RESUBMIT">>, StrOfNat(resubmits), 0)

\* lines 426-429: an existing directory stops the run unless overwrite is set
CaseExists_Never(f, path, overwrite) == FALSE

CaseExists(f, path, overwrite) == IsDir(f, path) /\ overwrite = FALSE

\* lines 382-515: one iteration of the loop, for point i.  failAt is the
\* position, among the external commands of the iteration, of the command
\* that returns non-zero (0: none does).
PointResult(i, failAt) ==
    LET a == cc.args
        values == _lattice.pts[i]
        sfx == Sfx(a.clone_sfx, cc.print_params, values, i, Len(_lattice.pts))
        new_case == CasePath(cc.top_clone_dir, cc.clone_prefix, sfx.v)
        new_case_out == CasePath(a.top_output_dir, cc.clone_prefix, sfx.v)
        stop(e, f, dirs, l) == [err |-> e, fs |-> f, clone_dirs |-> dirs, log |-> l]
        \* lines 430-437
        fs1 == IF IsDir(fs, new_case) THEN Rmtree(fs, new_case) ELSE fs
        log1 == IF IsDir(fs, new_case)
                THEN Append(log, Event("rmtree", i, new_case, <<>>, <<>>, 0)) ELSE log
        fs2 == IF IsDir(fs1, new_case_out) THEN Rmtree(fs1, new_case_out) ELSE fs1
        log2 == IF IsDir(fs1, new_case_out)
                THEN Append(log1, Event("rmtree", i, new_case_out, <<>>, <<>>, 0)) ELSE log1
        \* lines 439-451
        cmd == Event("create_clone", i, new_case, a.root_case, a.top_output_dir, 0)
        rc(f, c, k) == IF c.ev = "create_clone" /\ ~CloneOk(f, c.path, c.key) THEN 1
                       ELSE IF failAt = k THEN 1 ELSE 0
        rc1 == rc(fs2, cmd, 1)
        fs3 == IF rc1 = 0 THEN Cloned(fs2, new_case, a.root_case) ELSE fs2
        log3 == log2 \o <<[cmd EXCEPT !.rc = rc1]>>
                     \o <<Event("append", i, new_case, <<>>, <<>>, 0)>>
        dirs3 == Append(clone_dirs, new_case)
        \* lines 453-457
        resub == ResubmitCmd(i, new_case, a.resubmits)
        log4 == Append(log3, [resub EXCEPT !.rc = rc(fs3, resub, 2)])
        \* lines 461-515
        cmds == Flatten([j \in DOMAIN cc.params |->
                           ParamCmds(cc.params, values, j, new_case, cmd)])
        log5 == Append(log4, Event("purge_nl", i, new_case, <<>>, <<>>, 0))
                \o [k \in DOMAIN cmds |->
                      [cmds[k] EXCEPT !.i = i, !.rc = rc(fs3, cmds[k], 2 + k)]]
                \o <<Event("write_nl", i, new_case, <<>>, <<>>, 0)>>
        fs5 == [fs3 EXCEPT !.nl[new_case] =
                   ReconcileText(fs3.nl[new_case], cc.all_params, cc.params, values)]
    IN  IF sfx.err # "" THEN stop(sfx.err, fs, clone_dirs, log)
        ELSE IF a.read_existing_clones
        THEN stop("", fs, Append(clone_dirs, new_case),
                  Append(log, Event("append", i, new_case, <<>>, <<>>, 0)))
        ELSE IF CaseExists(fs, new_case, a.overwrite)
        THEN stop("RuntimeError: clone already exists", fs, clone_dirs, log)
        ELSE IF CaseExists(fs, new_case_out, a.overwrite)
        THEN stop("RuntimeError: output already exists", fs, clone_dirs, log)
        ELSE IF ~IsDir(fs3, new_case)
        THEN stop("FileNotFoundError: chdir to the new case", fs3, dirs3, log3)
        ELSE stop("", fs5, dirs3, log5)

\* the number of external commands that the iteration for point i may run
PointCmdCount(i) ==
    2 + Len(Flatten([j \in DOMAIN cc.params |->
                       ParamCmds(cc.params, _lattice.pts[i], j, <<>>, <<>>)]))

ClonePoint(failAt) ==
    /\ cc.pc = "loop"
    /\ failAt <= PointCmdCount(cc.i)
    /\ failAt # 0 => cc.nfail < MaxFailures
    /\ \E r \in {PointResult(cc.i, failAt)} :
          /\ fs' = r.fs
          /\ clone_dirs' = r.clone_dirs
          /\ log' = r.log
          /\ cc' = [cc EXCEPT
                      !.pc = IF r.err # "" \/ cc.i = Len(_lattice.pts) THEN "idle" ELSE "loop",
                      !.err = r.err,
                      !.i = IF r.err # "" \/ cc.i = Len(_lattice.pts) THEN @ ELSE @ + 1,
                      !.nfail = IF failAt # 0 THEN @ + 1 ELSE @]
          /\ last' = [last EXCEPT !.err = IF r.err # "" \/ cc.i = Len(_lattice.pts)
                                          THEN r.err ELSE "running"]
    /\ UNCHANGED <<nofill, registry, _lattice, stdout, user_nl>>

\* lines 325-327: read_existing_clones goes with neither overwrite nor clean_all
ReadExistingAssert_Off(a) == TRUE

ReadExistingAssert(a) ==
    a.read_existing_clones => (a.overwrite = FALSE /\ a.clean_all = FALSE)

\* lines 358-361: the top directories are removed if clean_all is set and one
\* of them exists
Clean_Unasked(a, clonedir_exist, outdir_exist) == clonedir_exist \/ outdir_exist

Clean(a, clonedir_exist, outdir_exist) ==
    a.clean_all /\ (clonedir_exist \/ outdir_exist)

\* lines 320-379: create_clones up to the loop.  confirm is what the user
\* answers to input(): "enter" or "interrupt".
CreateClonesResult(a, confirm, numpy_ragged) ==
    LET stop(e, so, f, l) ==
            [err |-> e, stdout |-> so, fs |-> f, log |-> l, params |-> <<>>,
             print_params |-> <<>>, all_params |-> <<>>, top_clone_dir |-> <<>>,
             clone_prefix |-> <<>>]
        params == _lattice.names
        print_params == PrintParams(params, paramgroup_mask, paramgroup_labels)
        all_params == AllParams(params, param_names, paramgroup_mask, numpy_ragged)
        parts == Split(a.root_case, "/")
        top_clone_dir == IF a.top_clone_dir = None
                         THEN Join(SubSeq(parts, 1, Len(parts) - 1), <<"/">>)
                         ELSE a.top_clone_dir
        clone_prefix == IF a.clone_prefix = None THEN parts[Len(parts)] ELSE a.clone_prefix
        \* lines 358-368
        clonedir_exist == IsDir(fs, top_clone_dir)
        outdir_exist == IsDir(fs, a.top_output_dir)
        clean == Clean(a, clonedir_exist, outdir_exist)
        fs1 == IF clean /\ clonedir_exist THEN Rmtree(fs, top_clone_dir) ELSE fs
        log1 == IF clean /\ clonedir_exist
                THEN <<Event("rmtree", 0, top_clone_dir, <<>>, <<>>, 0)>> ELSE <<>>
        fs2 == IF clean /\ outdir_exist THEN Rmtree(fs1, a.top_output_dir) ELSE fs1
        log2 == IF clean /\ outdir_exist
                THEN Append(log1, Event("rmtree", 0, a.top_output_dir, <<>>, <<>>, 0))
                ELSE log1
        \* lines 371-377
        fs3 == IF ~IsDir(fs2, top_clone_dir) THEN Mkdir(fs2, top_clone_dir) ELSE fs2
        log3 == IF ~IsDir(fs2, top_clone_dir)
                THEN Append(log2, Event("mkdir", 0, top_clone_dir, <<>>, <<>>, 0)) ELSE log2
        mkout == a.top_output_dir # None /\ ~IsDir(fs3, a.top_output_dir)
        fs4 == IF mkout THEN Mkdir(fs3, a.top_output_dir) ELSE fs3
        log4 == IF mkout
                THEN Append(log3, Event("mkdir", 0, a.top_output_dir, <<>>, <<>>, 0)) ELSE log3
    IN  IF ~_lattice.built
        THEN stop("RuntimeError: Lattice must first be built by calling expand()",
                  stdout, fs, <<>>)
        ELSE IF ~IsDir(fs, a.root_case)
        THEN stop("RuntimeError: Root case does not exist", stdout, fs, <<>>)
        ELSE IF ~ReadExistingAssert(a)
        THEN stop("AssertionError: if read_existing_clones=True, must have overwrite=False, clean_all=False",
                  stdout, fs, <<>>)
        ELSE IF print_params.err # "" THEN stop(print_params.err, a.stdout, fs, <<>>)
        ELSE IF all_params.err # "" THEN stop(all_params.err, a.stdout, fs, <<>>)
        ELSE IF a.clean_all /\ a.top_output_dir = None
        THEN stop("TypeError: stat: path should be string, not NoneType", a.stdout, fs, <<>>)
        ELSE IF clean /\ confirm = "interrupt"
        THEN stop("KeyboardInterrupt", a.stdout, fs, <<>>)
        ELSE [err |-> "", stdout |-> a.stdout, fs |-> fs4, log |-> log4, params |-> params,
              print_params |-> print_params.v, all_params |-> all_params.v,
              top_clone_dir |-> top_clone_dir, clone_prefix |-> clone_prefix]

CreateClones(a, confirm, numpy_ragged) ==
    /\ cc.pc = "idle"
    /\ cc.run < MaxRuns
    /\ \E r \in {CreateClonesResult(a, confirm, numpy_ragged)} :
          /\ stdout' = r.stdout
          /\ fs' = r.fs
          /\ log' = r.log
          /\ cc' = [pc |-> IF r.err = "" /\ Len(_lattice.pts) > 0 THEN "loop" ELSE "idle",
                    run |-> cc.run + 1, nfail |-> cc.nfail, i |-> 1, err |-> r.err,
                    args |-> a,
                    params |-> r.params, print_params |-> r.print_params,
                    all_params |-> r.all_params, top_clone_dir |-> r.top_clone_dir,
                    clone_prefix |-> r.clone_prefix]
          /\ last' = [op |-> "create_clones",
                      err |-> IF r.err = "" /\ Len(_lattice.pts) > 0 THEN "running"
                              ELSE r.err,
                      arg |-> a, pre |-> Snapshot]
    /\ UNCHANGED <<nofill, registry, _lattice, clone_dirs, user_nl>>

(***************************************************************************)
(* submit_clone_runs (lines 521-548) and resubmit_hung_clone_runs (lines   *)
(* 554-607).  Each is one step; the log holds the effects of the call.     *)
(* The exit status of case.submit is not read by the code and is left out. *)
(***************************************************************************)
RECURSIVE SubmitLoop(_, _, _)
\* lines 535-548 from registry entry k on, l being the effects so far
SubmitLoop(k, dry, l) ==
    IF k > Len(clone_dirs) THEN [err |-> "", log |-> l]
    ELSE LET clone == clone_dirs[k]
         IN  IF ~IsDir(fs, clone)
             THEN [err |-> "FileNotFoundError: chdir to the clone", log |-> l]
             ELSE SubmitLoop(k + 1, dry,
                     Append(l, Event("chdir", k, clone, <<>>, <<>>, 0))
                     \o (IF dry THEN <<>>
                         ELSE <<Event("submit", k, clone, <<>>, <<>>, 0)>>))

SubmitResult(dry) ==
    IF Len(clone_dirs) = 0
    THEN [err |-> "RuntimeError: Clone cases must first be created by calling expand()",
          log |-> <<>>]
    ELSE SubmitLoop(1, dry, <<>>)

SubmitCloneRuns(dry) ==
    /\ cc.pc = "idle"
    /\ \E r \in {SubmitResult(dry)} :
          /\ log' = r.log
          /\ last' = [op |-> "submit", err |-> r.err, arg |-> [dry |-> dry],
                      pre |-> Snapshot]
    /\ UNCHANGED <<nofill, registry, _lattice, clone_dirs, stdout, fs, cc, user_nl>>

\* what xmlquery RESUBMIT answers for each registry entry
Counters(n) == [1..n -> {0, 1}]

RECURSIVE ResubmitLoop(_, _, _, _)
\* lines 584-607 from registry entry k on
ResubmitLoop(k, dry, resubs, l) ==
    IF k > Len(clone_dirs) THEN [err |-> "", log |-> l]
    ELSE LET clone == clone_dirs[k]
             query == Event("xmlquery", k, clone, <<"RESUBMIT">>, StrOfNat(resubs[k]), 0)
         IN  IF ~IsDir(fs, clone)
             THEN [err |-> "FileNotFoundError: chdir to the clone", log |-> l]
             ELSE ResubmitLoop(k + 1, dry, resubs,
                     l \o <<Event("chdir", k, clone, <<>>, <<>>, 0), query>>
                     \o (IF resubs[k] = 0 \/ dry THEN <<>>
                         ELSE <<Event("submit", k, clone, <<>>, <<>>, 0)>>))

ResubmitResult(dry, resubs) ==
    IF Len(clone_dirs) = 0
    THEN [err |-> "RuntimeError: Clone cases must first be created by calling expand()",
          log |-> <<>>]
    ELSE ResubmitLoop(1, dry, resubs, <<>>)

ResubmitHungCloneRuns(dry, resubs) ==
    /\ cc.pc = "idle"
    /\ \E r \in {ResubmitResult(dry, resubs)} :
          /\ log' = r.log
          /\ last' = [op |-> "resubmit", err |-> r.err,
                      arg |-> [dry |-> dry, resubs |-> resubs], pre |-> Snapshot]
    /\ UNCHANGED <<nofill, registry, _lattice, clone_dirs, stdout, fs, cc, user_nl>>

(***************************************************************************)
(* The reconciliation of lines 459-515 applied to a text on its own: the   *)
(* text of user_nl.text is reconciled against point p of the lattice, at   *)
(* most MaxApplications times and always against the same point.           *)
(***************************************************************************)
Reconcile(p, numpy_ragged) ==
    /\ cc.pc = "idle"
    /\ _lattice.built
    /\ p \in DOMAIN _lattice.pts
    /\ user_nl.applied < MaxApplications
    /\ user_nl.applied > 0 => p = user_nl.point
    /\ PrintParams(_lattice.names, paramgroup_mask, paramgroup_labels).err = ""
    /\ \E ap \in {AllParams(_lattice.names, param_names, paramgroup_mask, numpy_ragged)} :
          /\ ap.err = ""
          /\ \E text \in {ReconcileText(user_nl.text, ap.v, _lattice.names, _lattice.pts[p])} :
                user_nl' = [text |-> text, applied |-> user_nl.applied + 1, point |-> p,
                            first |-> IF user_nl.applied = 0 THEN text ELSE user_nl.first]
    /\ last' = [op |-> "reconcile", err |-> "", arg |-> p, pre |-> Snapshot]
    /\ UNCHANGED <<nofill, registry, _lattice, clone_dirs, stdout, fs, cc, log>>

(***************************************************************************)
(* Construction (lines 25-53) and the calls the model makes.               *)
(***************************************************************************)
RootDir == <<"/", "r">>
RootCase == <<"/", "r", "/", "c">>

\* the user_nl file of the template: a user entry, an entry of a lattice
\* parameter, a comment, and an entry of a group member without a newline
Template ==
    <<"x", " ", "=", " ", "1", "\n",
      "a", " ", "=", " ", "5", "\n",
      "!", " ", "a", " ", "=", " ", "3", "\n",
      "q", "=", "7">>

\* no create_clones call is active
IdleClones ==
    [pc |-> "idle", run |-> 0, nfail |-> 0, i |-> 0, err |-> "", args |-> <<>>,
     params |-> <<>>, print_params |-> <<>>, all_params |-> <<>>, top_clone_dir |-> <<>>,
     clone_prefix |-> <<>>]

Init ==
    /\ nofill \in BOOLEAN
    /\ param_names = <<>>
    /\ param_vectors = <<>>
    /\ xml_mask = <<>>
    /\ paramgroup_mask = <<>>
    /\ paramgroup_labels = <<>>
    /\ _lattice = NoLattice
    /\ clone_dirs = <<>>
    /\ stdout = None
    /\ fs = [dirs |-> {RootDir, RootCase}, nl |-> (RootCase :> Template)]
    /\ cc = IdleClones
    /\ log = <<>>
    /\ user_nl = [text |-> <<>>, applied |-> 0, point |-> 0, first |-> <<>>]
    /\ last = [op |-> "init", err |-> "", arg |-> <<>>, pre |-> <<>>]

ScalarCall(name, vals, xml) ==
    [names |-> <<name>>, hasValues |-> TRUE, values |-> <<vals>>,
     hasLimits |-> FALSE, limits |-> <<>>, hasNsamples |-> FALSE, nsamples |-> <<>>,
     logspace |-> FALSE, xmlchange |-> xml, group |-> FALSE, group_labels |-> <<>>]

GroupCall(name, vals, label, xml) ==
    [names |-> <<name>>, hasValues |-> TRUE, values |-> <<vals>>,
     hasLimits |-> FALSE, limits |-> <<>>, hasNsamples |-> FALSE, nsamples |-> <<>>,
     logspace |-> FALSE, xmlchange |-> xml, group |-> TRUE, group_labels |-> <<label>>]

LimitsCall(name, lo, hi, n, logspace) ==
    [names |-> <<name>>, hasValues |-> FALSE, values |-> <<>>,
     hasLimits |-> TRUE, limits |-> <<<<lo, hi>>>>, hasNsamples |-> TRUE,
     nsamples |-> <<n>>, logspace |-> logspace, xmlchange |-> FALSE, group |-> FALSE,
     group_labels |-> <<>>]

Ints(ns) == [i \in DOMAIN ns |-> PyInt(ns[i])]
Strs(ss) == [i \in DOMAIN ss |-> PyStr(ss[i])]

\* valid dimensions: a=[1,2], b=[10,20], group 'p,q'=['1,1','2,2'] labelled g,
\* c=linspace(0,2,3), d=linspace(1,100,2) in log space, e=[150000] by xmlchange
ValidCalls ==
    { ScalarCall(<<"a">>, Ints(<<1, 2>>), FALSE),
      ScalarCall(<<"b">>, Ints(<<10, 20>>), FALSE),
      GroupCall(<<"p", ",", "q">>, Strs(<< <<"1", ",", "1">>, <<"2", ",", "2">> >>),
                <<"g">>, FALSE),
      LimitsCall(<<"c">>, 0, 2, 3, FALSE),
      LimitsCall(<<"d">>, 1, 100, 2, TRUE),
      ScalarCall(<<"e">>, Ints(<<150000>>), TRUE) }

\* calls that collide with, or are collided with by, the dimensions above
CollidingCalls ==
    { ScalarCall(<<"a">>, Ints(<<3, 4>>), TRUE),
      ScalarCall(<<"q">>, Ints(<<5, 6>>), FALSE),
      ScalarCall(<<"p", ",", "q">>, Ints(<<5, 6>>), FALSE),
      GroupCall(<<"a", ",", "r">>, Strs(<< <<"3", ",", "3">>, <<"4", ",", "4">> >>),
                <<"h">>, FALSE),
      GroupCall(<<"q", ",", "r">>, Strs(<< <<"3", ",", "3">>, <<"4", ",", "4">> >>),
                <<"h">>, FALSE),
      GroupCall(<<"p", ",", " ", "q">>, Strs(<< <<"3", ",", " ", "3">>, <<"4", ",", "4">> >>),
                <<"h">>, FALSE),
      GroupCall(<<"r", ",", "s">>, Strs(<< <<"3", ",", "3">>, <<"4", ",", "4">> >>),
                <<"g">>, TRUE),
      GroupCall(<<"r", ",", "r">>, Strs(<< <<"3", ",", "3">>, <<"4", ",", "4">> >>),
                <<"h">>, FALSE),
      GroupCall(<<"r", ",", "s", ",", "t">>,
                Strs(<< <<"3", ",", "3", ",", "3">>, <<"4", ",", "4", ",", "4">> >>),
                <<"k">>, FALSE) }

\* calls that break the calling convention
MalformedCalls ==
    { [ScalarCall(<<"f">>, Ints(<<1, 2>>), FALSE) EXCEPT
          !.hasLimits = TRUE, !.limits = <<<<0, 2>>>>, !.hasNsamples = TRUE,
          !.nsamples = <<2>>],
      [LimitsCall(<<"f">>, 0, 2, 2, FALSE) EXCEPT !.hasNsamples = FALSE, !.nsamples = <<>>],
      [ScalarCall(<<"f">>, <<>>, FALSE) EXCEPT !.hasValues = FALSE, !.values = <<>>],
      [GroupCall(<<"r", ",", "s">>, <<>>, <<"h">>, FALSE) EXCEPT
          !.hasValues = FALSE, !.values = <<>>],
      [GroupCall(<<"r", ",", "s">>, Strs(<< <<"3", ",", "3">> >>), <<>>, FALSE) EXCEPT
          !.group_labels = <<>>],
      GroupCall(<<"r", ",", "s">>, Strs(<< <<"3", ",", "3">>, <<"4">> >>), <<"h">>, FALSE),
      [ScalarCall(<<"f">>, Ints(<<1, 2>>), FALSE) EXCEPT !.names = <<<<"f">>, <<"h">>>>],
      [ScalarCall(<<"f">>, Ints(<<1, 2>>), FALSE) EXCEPT
          !.names = <<<<"f">>, <<"f">>>>, !.values = <<Ints(<<1, 2>>), Ints(<<3, 4>>)>>] }

NumpyBuilds == {"ValueError", "object"}

Masks == UNION {[1..n -> BOOLEAN] : n \in 0..MaxMaskLen}

(***************************************************************************)
(* Clone orchestration: the environment and the calls the model makes.     *)
(***************************************************************************)
\* a fresh object in fill mode, beside the root case of Init
InitClones ==
    /\ Init
    /\ nofill = FALSE

\* dimensions a=[1,2] in the text file, e=[150000] and group 'p,q' by xmlchange
CloneCalls ==
    { ScalarCall(<<"a">>, Ints(<<1, 2>>), FALSE),
      ScalarCall(<<"e">>, Ints(<<150000>>), TRUE),
      GroupCall(<<"p", ",", "q">>, Strs(<< <<"1", ",", "1">>, <<"2", ",", "2">> >>),
                <<"g">>, TRUE) }

BaseArgs ==
    [root_case |-> RootCase, top_clone_dir |-> <<"/", "t">>, top_output_dir |-> <<"/", "o">>,
     cime_dir |-> <<"/", "s">>, clone_prefix |-> None, clone_sfx |-> None,
     overwrite |-> FALSE, clean_all |-> FALSE, stdout |-> None, resubmits |-> 1,
     read_existing_clones |-> FALSE]

ArgsMenu ==
    { BaseArgs,
      [BaseArgs EXCEPT !.overwrite = TRUE],
      [BaseArgs EXCEPT !.stdout = <<"l">>],
      [BaseArgs EXCEPT !.clean_all = TRUE],
      [BaseArgs EXCEPT !.top_clone_dir = None, !.top_output_dir = None],
      [BaseArgs EXCEPT !.read_existing_clones = TRUE],
      [BaseArgs EXCEPT !.root_case = <<"/", "r", "/", "x">>],
      [BaseArgs EXCEPT !.read_existing_clones = TRUE, !.overwrite = TRUE],
      [BaseArgs EXCEPT !.read_existing_clones = TRUE, !.clean_all = TRUE],
      [BaseArgs EXCEPT !.clone_sfx = <<<<"s">>, <<"u">>, <<"v">>>>, !.clean_all = TRUE],
      [BaseArgs EXCEPT !.clone_sfx = <<<<"s">>>>],
      [BaseArgs EXCEPT !.clone_sfx = <<<<"s">>>>, !.overwrite = TRUE] }

NextClones ==
    \/ \E call \in CloneCalls : Expand(call, "ValueError")
    \/ \E a \in ArgsMenu : \E confirm \in {"enter", "interrupt"} :
          CreateClones(a, confirm, "ValueError")
    \/ cc.pc = "loop" /\ \E failAt \in 0..PointCmdCount(cc.i) : ClonePoint(failAt)

SpecClones == InitClones /\ [][NextClones]_vars

\* the collision, clean and read-existing policies: scalar dimensions a and e,
\* the arguments that the policies depend on, and create_clone as the one
\* command that may fail
\* line 265: resubmits, the default 0 and one resubmission
Resubmits == {0, 1}

PolicyArgs ==
    { BaseArgs,
      [BaseArgs EXCEPT !.overwrite = TRUE],
      [BaseArgs EXCEPT !.clean_all = TRUE],
      [BaseArgs EXCEPT !.read_existing_clones = TRUE],
      [BaseArgs EXCEPT !.read_existing_clones = TRUE, !.overwrite = TRUE],
      [BaseArgs EXCEPT !.read_existing_clones = TRUE, !.clean_all = TRUE],
      [BaseArgs EXCEPT !.clone_sfx = <<<<"s">>>>],
      [BaseArgs EXCEPT !.clone_sfx = <<<<"s">>>>, !.overwrite = TRUE] }

NextPolicy ==
    \/ \E call \in {c \in CloneCalls : ~c.group} : Expand(call, "ValueError")
    \/ \E a \in PolicyArgs : \E confirm \in {"enter", "interrupt"} :
          \E r \in Resubmits :
             CreateClones([a EXCEPT !.resubmits = r], confirm, "ValueError")
    \/ cc.pc = "loop" /\ \E failAt \in 0..1 : ClonePoint(failAt)

SpecPolicy == InitClones /\ [][NextPolicy]_vars

\* submission after the runs of create_clones: dimensions a and e, a plain
\* run, a read-existing run and a run with clean_all
SubmitArgs ==
    { BaseArgs,
      [BaseArgs EXCEPT !.read_existing_clones = TRUE],
      [BaseArgs EXCEPT !.clean_all = TRUE] }

NextSubmit ==
    \/ \E call \in {c \in CloneCalls : ~c.group} : Expand(call, "ValueError")
    \/ \E a \in SubmitArgs : CreateClones(a, "enter", "ValueError")
    \/ cc.pc = "loop" /\ ClonePoint(0)
    \/ \E dry \in BOOLEAN : SubmitCloneRuns(dry)
    \/ \E dry \in BOOLEAN : \E resubs \in Counters(Len(clone_dirs)) :
          ResubmitHungCloneRuns(dry, resubs)

SpecSubmit == InitClones /\ [][NextSubmit]_vars

\* texts: empty; the template; a text that ends without a newline
Texts == {<<>>, Template, <<"x", "=", "1">>}

InitReconcile ==
    /\ nofill \in BOOLEAN
    /\ param_names = <<>> /\ param_vectors = <<>> /\ xml_mask = <<>>
    /\ paramgroup_mask = <<>> /\ paramgroup_labels = <<>> /\ _lattice = NoLattice
    /\ clone_dirs = <<>> /\ stdout = None /\ log = <<>>
    /\ fs = [dirs |-> {RootDir, RootCase}, nl |-> (RootCase :> Template)]
    /\ cc = IdleClones
    /\ user_nl \in {[text |-> t, applied |-> 0, point |-> 0, first |-> <<>>] : t \in Texts}
    /\ last = [op |-> "init", err |-> "", arg |-> <<>>, pre |-> <<>>]

NextReconcile ==
    \/ \E call \in CloneCalls : Expand(call, "ValueError")
    \/ \E p \in 1..MaxDims + 1 : Reconcile(p, "ValueError")

SpecReconcile == InitReconcile /\ [][NextReconcile]_vars

\* the lattice interface with every kind of expand call
NextRegistry ==
    \/ \E call \in ValidCalls \cup CollidingCalls \cup MalformedCalls :
          \E b \in NumpyBuilds : Expand(call, b)
    \/ \E mask \in {<<TRUE, FALSE>>, <<FALSE, TRUE, TRUE, FALSE>>} : Filter(mask)
    \/ GetLattice

SpecRegistry == Init /\ [][NextRegistry]_vars

\* the lattice interface with valid dimensions and every mask (the xmlchange
\* flag of a dimension does not enter the lattice)
Next ==
    \/ \E call \in {c \in ValidCalls : ~c.xmlchange} : Expand(call, "ValueError")
    \/ \E mask \in Masks : Filter(mask)
    \/ GetLattice

Spec == Init /\ [][Next]_vars

(***************************************************************************)
(* Properties.                                                             *)
(***************************************************************************)

\* C2: expand of a scalar dimension fails whenever its name is already in the
\* registry, as the name of a scalar dimension or as a member name of a
\* registered group.
C2_ScalarDuplicateRejected ==
    (/\ last.op = "expand"
     /\ ~last.arg.group
     /\ \E i \in DOMAIN last.arg.names : \E d \in DOMAIN last.pre.names :
           \/ last.pre.names[d] = last.arg.names[i]
           \/ /\ last.pre.grp[d] = 1
              /\ Contains(Split(last.pre.names[d], ","), last.arg.names[i]))
    => last.err # ""

\* C3: expand of a grouped dimension fails whenever its label is the label of a
\* registered group, or one of its member names is registered anywhere (a
\* scalar name or a member of another group), or its member names repeat, or a
\* value has a component count other than the member count.
C3_GroupCollisionRejected ==
    (/\ last.op = "expand"
     /\ last.arg.group
     /\ LET members == Split(RemoveWhitespace(last.arg.names[1]), ",")
        IN  \/ /\ last.arg.group_labels # <<>>
               /\ Contains(last.pre.labels, last.arg.group_labels[1])
            \/ \E k \in DOMAIN members : \E d \in DOMAIN last.pre.names :
                  \/ last.pre.names[d] = members[k]
                  \/ /\ last.pre.grp[d] = 1
                     /\ Contains(Split(last.pre.names[d], ","), members[k])
            \/ HasDuplicates(members)
            \/ /\ last.arg.hasValues
               /\ \E j \in DOMAIN last.arg.values[1] :
                     Len(Split(RemoveWhitespace(last.arg.values[1][j].s), ","))
                        # Len(members))
    => last.err # ""

\* C4: a lattice built from at least 2 dimensions has as many points as the
\* product of the dimensions' cardinalities in fill mode, and as many as the
\* common cardinality in no-fill mode.
C4_LatticeSize ==
    (last.op = "expand" /\ last.err = "" /\ Len(param_names) >= 2)
    => /\ _lattice.built
       /\ ~nofill => Len(_lattice.pts) = Product(Sizes(param_vectors))
       /\ (nofill /\ \A d \in DOMAIN param_vectors :
                         Len(param_vectors[d]) = Len(param_vectors[1]))
             => Len(_lattice.pts) = Len(param_vectors[1])

C4_Witness ==
    /\ last.op = "expand" /\ last.err = "" /\ ~nofill
    /\ Len(param_names) = 3
    /\ Sizes(param_vectors) = <<2, 3, 2>>
    /\ Len(_lattice.pts) = 12

\* C5: in fill mode the built lattice holds every combination of one value per
\* dimension exactly once, two dimensions being enumerated with the first one
\* varying fastest (a=[1,2], b=[10,20] gives (1,10),(2,10),(1,20),(2,20)); in
\* no-fill mode point i holds value i of every dimension.  A lattice value is
\* the registered value in the dtype of the lattice.
C5_LatticeContent ==
    (last.op = "expand" /\ last.err = "")
    => LET pts == _lattice.pts
           n == Sizes(param_vectors)
           D == DOMAIN param_vectors
           holds(p, d, i) == pts[p][d] = AsKind(param_vectors[d][i], pts[p][d].kind)
       IN  /\ ~nofill =>
                /\ Len(pts) = Product(n)
                /\ \A idx \in [D -> 1..Len(pts)] :
                      (\A d \in D : idx[d] <= n[d])
                      => Cardinality({p \in DOMAIN pts : \A d \in D : holds(p, d, idx[d])}) = 1
                /\ Len(param_names) = 2 =>
                      \A p \in DOMAIN pts :
                         /\ holds(p, 1, ((p - 1) % n[1]) + 1)
                         /\ holds(p, 2, ((p - 1) \div n[1]) + 1)
                /\ (param_names = <<<<"a">>, <<"b">>>>) =>
                      pts = << <<NpInt(1), NpInt(10)>>, <<NpInt(2), NpInt(10)>>,
                               <<NpInt(1), NpInt(20)>>, <<NpInt(2), NpInt(20)>> >>
           /\ nofill =>
                /\ \A d \in D : Len(pts) = n[d]
                /\ \A p \in DOMAIN pts : \A d \in D : holds(p, d, p)
                /\ (param_names = <<<<"a">>, <<"b">>>>) =>
                      pts = << <<NpInt(1), NpInt(10)>>, <<NpInt(2), NpInt(20)>> >>

C5_Witness ==
    /\ last.op = "expand" /\ last.err = "" /\ ~nofill
    /\ param_names = <<<<"a">>, <<"b">>>>
    /\ Len(_lattice.pts) = 4

\* C6: a filter whose mask has one entry per point leaves exactly the points
\* whose entry is true, in their original order; an all-true mask changes
\* nothing and an all-false mask leaves no point.
C6_FilterSubsequence ==
    (/\ last.op = "filter"
     /\ last.pre.lat.built
     /\ Len(last.arg) = Len(last.pre.lat.pts))
    => LET mask == last.arg
           old == last.pre.lat.pts
           kept == {i \in DOMAIN mask : mask[i]}
       IN  /\ last.err = ""
           /\ _lattice.built /\ _lattice.names = last.pre.lat.names
           /\ Len(_lattice.pts) = Cardinality(kept)
           /\ \A i \in kept : _lattice.pts[Cardinality({j \in kept : j <= i})] = old[i]
           /\ (kept = DOMAIN mask) => _lattice = last.pre.lat
           /\ (kept = {}) => _lattice.pts = <<>>

C6_Witness ==
    /\ last.op = "filter" /\ last.err = ""
    /\ last.arg = <<FALSE, TRUE, FALSE, TRUE>>
    /\ Len(_lattice.pts) = 2
    /\ _lattice.pts[1] # _lattice.pts[2]

\* C7: with fewer than 2 registered dimensions the lattice property raises
\* and returns no lattice.
C7_LatticeNotReady ==
    (last.op = "lattice" /\ Len(param_names) < 2)
    => /\ last.err = "RuntimeError: must add at least 2 dimensions to build lattice"
       /\ last.arg = NoLattice

C7_Witness ==
    /\ last.op = "lattice" /\ last.err # ""
    /\ Len(param_names) = 1
    /\ _lattice.built

\* C1: reconciling the same lattice point against a text a second time leaves
\* the text as the first reconciliation left it.
C1_ReconcileIdempotent ==
    user_nl.applied = 2 => user_nl.text = user_nl.first

\* C8: in a derived suffix every numeric point value of 100000 or more is
\* rendered as '%e' without its '+' (150000 as 1.500000e05), and every other
\* value as create_clones renders it.
C8_LargeValuesExponential ==
    (last.op = "create_clones" /\ cc.args.clone_sfx = None)
    => \A k \in DOMAIN log :
          log[k].ev = "append" =>
             LET values == _lattice.pts[log[k].i]
                 rendered == [j \in DOMAIN values |->
                                IF /\ values[j].kind \in {"int", "int64", "float64"}
                                   /\ values[j].n >= 100000
                                THEN Replace(FormatE(values[j].n), "+", <<>>)
                                ELSE Text(PrintValue(values[j]))]
                 sfx == Join([j \in DOMAIN values |->
                                cc.print_params[j] \o <<"_">> \o rendered[j]], <<"_", "_">>)
             IN  log[k].path = CasePath(cc.top_clone_dir, cc.clone_prefix, sfx)

\* C9: an external command of create_clones that returns non-zero is the last
\* thing the run does, and the run ends with an error.
C9_ExternalFailureAborts ==
    \A k \in DOMAIN log :
       log[k].rc # 0 => /\ k = Len(log)
                        /\ cc.pc = "idle"
                        /\ cc.err # ""

\* C10: when create_clones (not reading existing clones) comes to a point whose
\* case path exists, then without overwrite the call ends with the
\* case-exists error and the step destroys, provisions and registers nothing,
\* and with overwrite the path is removed before create_clone runs for it.
C10_NameCollisionPolicy ==
    [][ (/\ cc.pc = "loop"
         /\ ~cc.args.read_existing_clones
         /\ Sfx(cc.args.clone_sfx, cc.print_params, _lattice.pts[cc.i], cc.i,
                Len(_lattice.pts)).err = "")
        => LET sfx == Sfx(cc.args.clone_sfx, cc.print_params, _lattice.pts[cc.i], cc.i,
                          Len(_lattice.pts)).v
               new_case == CasePath(cc.top_clone_dir, cc.clone_prefix, sfx)
               added == (Len(log) + 1)..Len(log')
           IN  IsDir(fs, new_case) =>
                  /\ ~cc.args.overwrite =>
                        /\ cc'.err = "RuntimeError: clone already exists"
                        /\ cc'.pc = "idle" /\ cc'.i = cc.i
                        /\ fs' = fs
                        /\ clone_dirs' = clone_dirs
                        /\ log' = log
                        /\ \A k \in DOMAIN log : log[k].i < cc.i
                        /\ \A k \in DOMAIN log :
                              log[k].ev = "append" =>
                                 /\ IsDir(fs', log[k].path)
                                 /\ Contains(clone_dirs', log[k].path)
                  /\ cc.args.overwrite =>
                        /\ SubSeq(log', 1, Len(log)) = log
                        /\ \E k \in added :
                              /\ log'[k].ev = "rmtree" /\ log'[k].path = new_case
                              /\ \E m \in added :
                                    log'[m].ev = "create_clone" /\ log'[m].path = new_case
                              /\ \A m \in added :
                                    (log'[m].ev = "create_clone" /\ log'[m].path = new_case)
                                    => m > k ]_vars

\* the second point of a run collides with the case that the run provisioned
\* for its first point
C10_Witness ==
    /\ cc.pc = "idle" /\ cc.err = "RuntimeError: clone already exists"
    /\ ~cc.args.overwrite
    /\ cc.i = 2
    /\ \E k \in DOMAIN log : log[k].ev = "create_clone" /\ log[k].i = 1 /\ log[k].rc = 0
    /\ clone_dirs # <<>>
    /\ IsDir(fs, clone_dirs[Len(clone_dirs)])

\* C11: a top-level clone or output directory is removed by create_clones only
\* in a run with clean_all, only in the part of the call that comes before the
\* loop over the points, and not when the confirmation was interrupted; a run
\* without clean_all removes neither directory.
C11_CleanOnlyWhenAsked ==
    [][ (cc.pc = "loop" \/ cc'.run = cc.run + 1) =>
           LET a == cc'.args
               tops == {a.top_clone_dir, a.top_output_dir, cc'.top_clone_dir} \ {None, <<>>}
               added == (IF cc.pc = "idle" THEN 1 ELSE Len(log) + 1)..Len(log')
           IN  \A d \in tops :
                  (\/ IsDir(fs, d) /\ ~IsDir(fs', d)
                   \/ \E k \in added : log'[k].ev = "rmtree" /\ log'[k].path = d)
                  => /\ a.clean_all
                     /\ cc.pc = "idle" /\ cc'.run = cc.run + 1
                     /\ cc'.err # "KeyboardInterrupt"
                     /\ \A k \in DOMAIN log' : log'[k].i = 0 ]_vars

\* a second run with clean_all has removed the clone directory of the first
\* run and then cloned its points
C11_Witness ==
    /\ cc.run = 2 /\ cc.pc = "idle" /\ cc.err = ""
    /\ cc.args.clean_all
    /\ log # <<>> /\ log[1].ev = "rmtree" /\ log[1].i = 0 /\ log[1].path = cc.top_clone_dir
    /\ \E k \in DOMAIN log : log[k].ev = "create_clone" /\ log[k].i >= 1

\* C12: outside read-existing mode the case path of a point is appended to
\* clone_dirs only after create_clone has run for the point and the point's
\* user_nl file has been rewritten.
C12_RegisteredAfterReconciled ==
    \A k \in DOMAIN log :
       (log[k].ev = "append" /\ ~cc.args.read_existing_clones)
       => /\ \E c \in 1..(k - 1) : log[c].ev = "create_clone" /\ log[c].i = log[k].i
          /\ \E w \in 1..(k - 1) : log[w].ev = "write_nl" /\ log[w].i = log[k].i

\* C13: with read_existing_clones the call is rejected before any effect if
\* overwrite or clean_all is set; otherwise the call removes nothing, runs no
\* command and writes no file, and every point only appends its case path to
\* clone_dirs, whether or not the path exists.
C13_ReadExistingOnlyRegisters ==
    [][ (/\ cc'.run >= 1 /\ cc'.args.read_existing_clones
         /\ cc.pc = "loop" \/ cc'.run = cc.run + 1) =>
           IF cc.pc = "idle"
           THEN /\ (cc'.args.overwrite \/ cc'.args.clean_all)
                      => /\ cc'.err # "" /\ cc'.pc = "idle"
                         /\ fs' = fs /\ log' = <<>> /\ stdout' = stdout
                /\ clone_dirs' = clone_dirs
                /\ fs'.nl = fs.nl /\ fs.dirs \subseteq fs'.dirs
                /\ \A k \in DOMAIN log' : log'[k].ev = "mkdir"
           ELSE LET s == Sfx(cc.args.clone_sfx, cc.print_params, _lattice.pts[cc.i], cc.i,
                             Len(_lattice.pts))
                    new_case == CasePath(cc.top_clone_dir, cc.clone_prefix, s.v)
                IN  s.err = "" =>
                       /\ clone_dirs' = Append(clone_dirs, new_case)
                       /\ fs' = fs
                       /\ log' = Append(log, Event("append", cc.i, new_case, <<>>, <<>>, 0))
                       /\ cc'.err = ""
                       /\ cc'.pc = "idle" <=> cc.i = Len(_lattice.pts) ]_vars

\* a read-existing run has registered the two points of a lattice, the case
\* of the first of which does not exist
C13_Witness ==
    /\ cc.run >= 1 /\ cc.pc = "idle" /\ cc.err = ""
    /\ cc.args.read_existing_clones
    /\ Len(_lattice.pts) = 2 /\ last.op = "create_clones"
    /\ Len(clone_dirs) >= 2
    /\ Len(log) >= 2 /\ log[Len(log)].ev = "append" /\ log[Len(log)].i = 2
    /\ ~IsDir(fs, clone_dirs[Len(clone_dirs) - 1])

\* C14: submit_clone_runs runs case.submit once for every entry of clone_dirs,
\* in the order of clone_dirs, when dry is false, and for no entry when dry is
\* true.
C14_SubmitEveryEntry ==
    last.op = "submit" =>
       LET subs == SelectSeq(log, LAMBDA e : e.ev = "submit")
       IN  IF last.arg.dry THEN subs = <<>>
           ELSE [k \in DOMAIN subs |-> subs[k].path] = clone_dirs

\* C15: resubmit_hung_clone_runs queries RESUBMIT of every entry of clone_dirs
\* and runs case.submit for exactly the entries whose answer is not 0 (for
\* none when dry is true); it runs no command that sets RESUBMIT.
C15_ResubmitIffNonzero ==
    last.op = "resubmit" =>
       LET at(ev, k) == {j \in DOMAIN log : log[j].ev = ev /\ log[j].i = k}
       IN  /\ \A k \in DOMAIN clone_dirs :
                /\ Cardinality(at("xmlquery", k)) = 1
                /\ Cardinality(at("submit", k)) =
                      (IF last.arg.resubs[k] # 0 /\ ~last.arg.dry THEN 1 ELSE 0)
           /\ \A j \in DOMAIN log : log[j].ev # "xmlchange"

\* C16: an expand call that fails leaves the registry (names, value vectors,
\* xmlchange flags, group flags, group labels) and the lattice as they were
\* before the call.
C16_FailedExpandLeavesState ==
    (last.op = "expand" /\ last.err # "")
    => /\ param_names = last.pre.names
       /\ param_vectors = last.pre.vectors
       /\ xml_mask = last.pre.xml
       /\ paramgroup_mask = last.pre.grp
       /\ paramgroup_labels = last.pre.labels
       /\ _lattice = last.pre.lat

\* C17: filter with a mask whose length is not the number of points of the
\* current lattice fails with the index error of a mismatched boolean index
\* and leaves the lattice as it was.
C17_FilterLengthMismatch ==
    (/\ last.op = "filter"
     /\ last.pre.lat.built
     /\ Len(last.arg) # Len(last.pre.lat.pts))
    => /\ last.err = "IndexError: boolean index did not match indexed array"
       /\ _lattice = last.pre.lat

C17_Witness ==
    /\ last.op = "filter" /\ last.err # ""
    /\ _lattice.built /\ Len(_lattice.pts) = 4
    /\ Len(last.arg) = 3 /\ last.arg[1]

\* C18: a create_clones call with a suffix list whose length is neither 1 nor
\* the number of lattice points ends with the length-mismatch error (unless
\* the user interrupts it at the confirmation), and nothing is removed, cloned
\* or registered by the call.
C18_SuffixLengthMismatch ==
    (/\ last.op = "create_clones"
     /\ last.pre.lat.built
     /\ cc.err # "KeyboardInterrupt"
     /\ Len(cc.args.clone_sfx) \notin {1, Len(_lattice.pts)})
    => /\ cc.pc = "idle" =>
             cc.err = "RuntimeError: clone_sfx must be a single string or match the lattice"
       /\ \A k \in DOMAIN log : log[k].ev \notin {"rmtree", "create_clone", "append"}

\* C19: a create_clones call made with fewer than two registered dimensions
\* (where the lattice property raises) or with a root case that does not
\* exist fails at once: it ends with an error and has no effect.
C19_NotReadyFailsEarly ==
    (/\ last.op = "create_clones"
     /\ Len(last.pre.names) < 2 \/ ~IsDir(fs, cc.args.root_case))
    => /\ cc.pc = "idle"
       /\ cc.err \in {"RuntimeError: Lattice must first be built by calling expand()",
                      "RuntimeError: Root case does not exist"}
       /\ log = <<>>

\* C20: in a run of create_clones every completed point has, for every
\* dimension flagged for xmlchange, one xmlchange command per key with the
\* value of the point (one for a scalar, one per member for a group), the
\* create_clone command runs once for the point, and no xmlchange command
\* carries the key of a dimension that goes to the text file.
C20_OneFreshCommandPerKey ==
    (last.op = "create_clones" /\ ~cc.args.read_existing_clones)
    => \A w \in DOMAIN log :
          log[w].ev = "write_nl" =>
             LET i == log[w].i
                 values == _lattice.pts[i]
                 keys(j) == IF paramgroup_mask[j] = 1 THEN Split(cc.params[j], ",")
                            ELSE <<cc.params[j]>>
                 vals(j) == IF paramgroup_mask[j] = 1 THEN Split(values[j].s, ",")
                            ELSE <<Text(values[j])>>
                 cmds(key) == {k \in DOMAIN log :
                                 /\ log[k].i = i /\ log[k].ev = "xmlchange"
                                 /\ log[k].key = key}
             IN  /\ \A j \in DOMAIN cc.params : \A m \in DOMAIN keys(j) :
                        IF xml_mask[j] = 1
                        THEN /\ Cardinality(cmds(keys(j)[m])) = 1
                             /\ \A k \in cmds(keys(j)[m]) : log[k].val = vals(j)[m]
                        ELSE cmds(keys(j)[m]) = {}
                 /\ Cardinality({k \in DOMAIN log :
                                   log[k].i = i /\ log[k].ev = "create_clone"}) = 1

\* C21: reconciling a text keeps, in order and unchanged, every line whose key
\* (the text before the first '=', without whitespace) is not a scalar name
\* and not a member name of a group of the registry, ahead of the block that
\* create_clones writes (a newline, the marker line, the entries of the
\* point); every line with such a key is gone from that part, and the lines
\* of the block after the marker all have keys of the registry.
C21_UnownedLinesKept ==
    [][ user_nl'.applied = user_nl.applied + 1 =>
           LET owned == UNION {IF paramgroup_mask[d] = 1
                               THEN {m : m \in {Split(param_names[d], ",")[k] :
                                                   k \in DOMAIN Split(param_names[d], ",")}}
                               ELSE {param_names[d]} : d \in DOMAIN param_names}
               key(e) == LET cut == IF Contains(e, "=")
                                    THEN (CHOOSE k \in DOMAIN e :
                                             e[k] = "=" /\ \A m \in 1..(k - 1) : e[m] # "=") - 1
                                    ELSE Len(e)
                         IN  RemoveWhitespace(SubSeq(e, 1, cut))
               kept == Flatten(SelectSeq(ReadLines(user_nl.text),
                                         LAMBDA e : key(e) \notin owned))
               new == user_nl'.text
               head == Len(kept) + 1 + Len(Marker)
           IN  /\ Len(new) >= head
               /\ SubSeq(new, 1, Len(kept)) = kept
               /\ SubSeq(new, Len(kept) + 1, head) = <<"\n">> \o Marker
               /\ \A e \in {ReadLines(SubSeq(new, head + 1, Len(new)))[k] :
                              k \in DOMAIN ReadLines(SubSeq(new, head + 1, Len(new)))} :
                     key(e) \in owned ]_vars

\* the template reconciled against a point of a lattice with the dimensions a
\* and 'p,q': 'a = 5' and 'q=7' are gone, 'x = 1' and the comment '! a = 3'
\* are kept ahead of the block
C21_Witness ==
    /\ user_nl.applied = 1
    /\ Contains(param_names, <<"a">>) /\ Contains(param_names, <<"p", ",", "q">>)
    /\ Len(user_nl.text) > 16
    /\ SubSeq(user_nl.text, 1, 16) =
          <<"x", " ", "=", " ", "1", "\n", "!", " ", "a", " ", "=", " ", "3", "\n", "\n", "!">>

\* C22: for every case that create_clones has provisioned (a create_clone
\* command that returned 0), the command xmlchange RESUBMIT=<resubmits> of
\* that case comes in the log after the create_clone command and before the
\* purge of user_nl, every parameter xmlchange and the rewrite of user_nl of
\* that point.
C22_ResubmitSetAfterClone ==
    \A c \in DOMAIN log :
       (log[c].ev = "create_clone" /\ log[c].rc = 0)
       => \E r \in (c + 1)..Len(log) :
             /\ log[r].ev = "xmlchange" /\ log[r].key = <<"RESUBMIT">>
             /\ log[r].i = log[c].i /\ log[r].path = log[c].path
             /\ log[r].val = StrOfNat(cc.args.resubmits)
             /\ \A k \in DOMAIN log :
                   (/\ log[k].i = log[c].i
                    /\ \/ log[k].ev \in {"purge_nl", "write_nl"}
                       \/ log[k].ev = "xmlchange" /\ log[k].key # <<"RESUBMIT">>)
                   => k > r

\* a run with resubmits=0 has provisioned and reconciled the point e=150000,
\* whose parameter goes through xmlchange
C22_Witness ==
    /\ cc.pc = "idle" /\ cc.err = "" /\ cc.run >= 1
    /\ cc.args.resubmits = 0
    /\ \E c \in DOMAIN log : log[c].ev = "create_clone" /\ log[c].rc = 0
    /\ \E k \in DOMAIN log : log[k].ev = "xmlchange" /\ log[k].key = <<"e">>
    /\ \E k \in DOMAIN log : log[k].ev = "write_nl"

\* C23: after every successful expand the lattice is the expansion of all
\* registered dimensions, whatever an earlier filter removed: in fill mode
\* every value of every registered dimension is held by as many points as the
\* other dimensions have combinations, in no-fill mode value i of every
\* registered dimension is held by point i and no other.
C23_ExpandRebuildsInFull ==
    (last.op = "expand" /\ last.err = "")
    => LET pts == _lattice.pts
           n == Sizes(param_vectors)
           D == DOMAIN param_vectors
           at(d, i) == {p \in DOMAIN pts :
                           pts[p][d] = AsKind(param_vectors[d][i], pts[p][d].kind)}
       IN  /\ _lattice.built
           /\ Len(_lattice.names) = Len(param_names)
           /\ \A p \in DOMAIN pts : Len(pts[p]) = Len(param_names)
           /\ ~nofill => \A d \in D : \A i \in 1..n[d] :
                            Cardinality(at(d, i)) * n[d] = Product(n)
           /\ nofill => \A d \in D : \A i \in 1..n[d] : at(d, i) = {i}

\* an expand that succeeded on an object whose lattice a filter had shortened
C23_Witness ==
    /\ last.op = "expand" /\ last.err = ""
    /\ last.pre.lat.built
    /\ Len(last.pre.vectors) >= 1
    /\ Len(last.pre.lat.pts) < Len(last.pre.vectors[1])
    /\ Len(param_names) >= 2
    /\ Len(_lattice.pts) >= 2

\* C24: every path that a run outside read-existing mode has appended to
\* clone_dirs was appended after a create_clone command for that path returned
\* 0 at the same point, so that the path of a failed create_clone is not
\* registered.
C24_RegisteredOnlyIfProvisioned ==
    \A k \in DOMAIN log :
       (/\ log[k].ev = "append" /\ ~cc.args.read_existing_clones
        /\ Contains(clone_dirs, log[k].path))
       => \E c \in 1..(k - 1) :
             /\ log[c].ev = "create_clone" /\ log[c].rc = 0
             /\ log[c].i = log[k].i /\ log[c].path = log[k].path

\* C25: within one run of create_clones, a case directory that create_clone
\* has made for one point is neither removed nor made again at a later point.
C25_ProvisionedCaseKept ==
    \A c \in DOMAIN log : \A k \in DOMAIN log :
       (/\ log[c].ev = "create_clone" /\ log[c].rc = 0
        /\ k > c /\ log[k].i > log[c].i
        /\ log[k].path = log[c].path)
       => log[k].ev \notin {"rmtree", "create_clone"}

\* C26: clone_dirs never holds a case path twice, and a call of
\* submit_clone_runs runs the case.submit of a case at most once.
C26_SubmittedOncePerCase ==
    (last.op = "submit" /\ last.err = "")
    => /\ ~HasDuplicates(clone_dirs)
       /\ \A j \in DOMAIN log : \A k \in DOMAIN log :
             (/\ log[j].ev = "submit" /\ log[k].ev = "submit"
              /\ log[j].path = log[k].path)
             => j = k

====
